---- MODULE Spec2Model ----
(***************************************************************************)
(* State-machine model of rucp (src/src/main.rs): a parallel recursive     *)
(* copy.  main scans the source tree, replicates the directories, spawns   *)
(* the progress thread, partitions the file list, runs one rayon task per  *)
(* chunk inside rayon::scope, joins the progress thread and reports the    *)
(* elapsed time.                                                           *)
(***************************************************************************)
EXTENDS Integers, Sequences, FiniteSets, TLC

\* ---- bounds of the model ------------------------------------------------
MaxFiles == 3
MaxThreads == 2
MaxDirs == 2
MaxErrs == 1
MaxRuns == 2

VARIABLES
    srcIsDir,        \* Path::new(source).is_dir()
    walk,            \* what WalkDir::new(source) yields, in order
    threads,         \* args.threads
    dstDirs,         \* directories that exist at or under the target
    dstFs,           \* files that exist under the target: path -> contents
    pc,              \* position of main
    total_files,     \* count_files_in_dir(source).0
    folders,         \* get_directories(source)
    files,           \* get_files(source)
    mkIdx,           \* position of the directory-creation loop
    chunks,          \* files.chunks(chunk_size)
    tasks,           \* the rayon tasks spawned in the scope, one per chunk
    senders,         \* live Sender handles of the channel (tx and its clones)
    chan,            \* messages sent and not yet received
    pbpc,            \* position of _pb_thread
    received_count,  \* _received_count of _pb_thread
    summary,         \* the "X/Y files copied" message, <<>> until emitted
    rxErrLogged,     \* "RX receive error" was printed
    panicMsg,        \* message of the panic that unwound main, "" if none
    runs,            \* how many times the tool has been started
    dst0,            \* dstFs when the current run started (history)
    dstDirs0,        \* dstDirs when the current run started (history)
    outcome,         \* per scanned file: how its copy attempt resolved (history)
    units            \* per scanned file: Progress Units sent for it (history)

vars == <<srcIsDir, walk, threads, dstDirs, dstFs, pc, total_files, folders,
          files, mkIdx, chunks, tasks, senders, chan, pbpc, received_count,
          summary, rxErrLogged, panicMsg, runs, dst0, dstDirs0, outcome, units>>

\* ---- paths ---------------------------------------------------------------
\* A directory is identified by its depth below the root it lives under
\* (depth 0 is the root itself); a file by its directory and its name.
SourceRoot == "source"
TargetRoot == "target"

DirPath(root, d) == [root |-> root, dir |-> d]
FilePath(root, d, n) == [root |-> root, dir |-> d, name |-> n]

\* Path::starts_with
StartsWith(p, root) == p.root = root

\* Path::strip_prefix: the path relative to its root
StripPrefix(p) == [p EXCEPT !.root = "."]

\* Path::join of a root and a relative path
Join(root, rel) == [rel EXCEPT !.root = root]

\* the parent directory of a file path
Parent(f) == DirPath(f.root, f.dir)

\* fs::create_dir_all: the directory and all its missing ancestors
CreateDirAll(existing, p) == existing \cup {DirPath(p.root, a) : a \in 0..p.dir}

\* the contents of a source file (each file has contents of its own)
SrcContent(f) == f.name
\* contents of a destination file left over from something else
Stale == 0

\* a bug Exists could have: only a destination with the contents of the source
\* counts as existing
ExistsIfSame(fs, p) == p \in DOMAIN fs /\ fs[p] = SrcContent(p)

\* fs::metadata(path).is_ok()
Exists(fs, p) == p \in DOMAIN fs

\* ---- the source tree as WalkDir yields it --------------------------------
DirOf(n, D) == (n - 1) % D

DirEntry(d) == [ok |-> TRUE, kind |-> "dir", path |-> DirPath(SourceRoot, d)]
FileEntry(n, D) == [ok |-> TRUE, kind |-> "file", path |-> FilePath(SourceRoot, DirOf(n, D), n)]
ErrEntry(e) == [ok |-> FALSE, kind |-> "err", path |-> e]

WalkOf(F, D, E) ==
    [i \in 1..D |-> DirEntry(i - 1)] \o [i \in 1..F |-> FileEntry(i, D)]
        \o [i \in 1..E |-> ErrEntry(i)]

\* the paths of the entries, in order (entry.path().to_path_buf())
PathsOf(sel) == [i \in 1..Len(sel) |-> sel[i].path]

IsOkFile(e) == e.ok /\ e.kind = "file"
IsOkDir(e) == e.ok /\ e.kind = "dir"

\* a bug count_files_in_dir could have: only the files of the root are counted
IsOkTopFile(e) == IsOkFile(e) /\ e.path.dir = 0
count_files_in_dir_top(w) == Len(SelectSeq(w, IsOkTopFile))

\* count_files_in_dir: errors are skipped, regular files are counted
count_files_in_dir(w) == Len(SelectSeq(w, IsOkFile))

\* a bug get_directories could have: only the root is listed
IsOkTopDir(e) == IsOkDir(e) /\ e.path.dir = 0
get_directories_top(w) == PathsOf(SelectSeq(w, IsOkTopDir))

\* get_directories: entry.unwrap() panics on the first error
get_directories_panics(w) == \E i \in 1..Len(w) : ~w[i].ok
get_directories(w) == PathsOf(SelectSeq(w, IsOkDir))

\* get_files: filter_map(Result::ok) drops the errors
get_files(w) == PathsOf(SelectSeq(w, IsOkFile))

Range(s) == {s[i] : i \in 1..Len(s)}
SrcFiles == Range(get_files(walk))

\* ---- partitioning ---------------------------------------------------------
\* an f64 holding the value num/den
ToF64(n) == [num |-> n, den |-> 1]
\* f64::round (half away from zero, non-negative values) followed by `as usize`
Round(x) == (2 * x.num + x.den) \div (2 * x.den)

\* line 100-101: integer division of the u64 values, then the f64 round trip
ChunkSize(F, N) == Round(ToF64(F \div N))

Min(a, b) == IF a < b THEN a ELSE b

\* a bug Chunks could have: each piece runs one element into the next
RECURSIVE ChunksOverlap(_, _)
ChunksOverlap(s, n) ==
    IF Len(s) = 0 THEN <<>>
    ELSE IF Len(s) <= n THEN <<s>>
    ELSE <<SubSeq(s, 1, n + 1)>> \o ChunksOverlap(SubSeq(s, n + 1, Len(s)), n)

\* slice::chunks(n) for n > 0: consecutive pieces of n, the last may be shorter
RECURSIVE Chunks(_, _)
Chunks(s, n) ==
    IF Len(s) = 0 THEN <<>>
    ELSE <<SubSeq(s, 1, Min(n, Len(s)))>> \o Chunks(SubSeq(s, n + 1, Len(s)), n)

RECURSIVE Concat(_)
Concat(ss) == IF Len(ss) = 0 THEN <<>> ELSE Head(ss) \o Concat(Tail(ss))

\* ---- initial state ---------------------------------------------------------
Mirror(p) == Join(TargetRoot, StripPrefix(p))

NoHistory(w) == [f \in Range(get_files(w)) |-> "none"]
NoUnits(w) == [f \in Range(get_files(w)) |-> 0]

ProcessStart ==
    /\ pc = "start"
    /\ total_files = 0
    /\ folders = <<>>
    /\ files = <<>>
    /\ mkIdx = 1
    /\ chunks = <<>>
    /\ tasks = <<>>
    /\ senders = 0
    /\ chan = <<>>
    /\ pbpc = "none"
    /\ received_count = 0
    /\ summary = <<>>
    /\ rxErrLogged = FALSE
    /\ panicMsg = ""

Init ==
    /\ srcIsDir \in BOOLEAN
    /\ threads \in 0..MaxThreads
    /\ \E F \in 0..MaxFiles, D \in 1..MaxDirs, E \in 0..MaxErrs :
          walk = IF srcIsDir THEN WalkOf(F, D, E) ELSE <<>>
    /\ \E k \in 0..MaxDirs :
          /\ dstDirs = {DirPath(TargetRoot, a) : a \in 0..(k - 1)}
          /\ \E pre \in SUBSET {f \in Range(get_files(walk)) : f.dir < k} :
                dstFs = [p \in {Mirror(f) : f \in pre} |-> Stale]
    /\ ProcessStart
    /\ runs = 1
    /\ dst0 = dstFs
    /\ dstDirs0 = dstDirs
    /\ outcome = NoHistory(walk)
    /\ units = NoUnits(walk)

\* ---- main ------------------------------------------------------------------
\* a panic of main: the stack unwinds, which drops tx, before the process exits
Panic(msg, liveTx) ==
    /\ pc' = "panicking"
    /\ panicMsg' = msg
    /\ senders' = senders - liveTx

\* lines 31-35: the source must be a directory
ValidateSource ==
    /\ pc = "start"
    /\ pc' = IF srcIsDir THEN "mktarget" ELSE "returned"
    /\ UNCHANGED <<srcIsDir, walk, threads, dstDirs, dstFs, total_files, folders,
                   files, mkIdx, chunks, tasks, senders, chan, pbpc,
                   received_count, summary, rxErrLogged, panicMsg, runs, dst0,
                   dstDirs0, outcome, units>>

\* lines 37-40: create the target directory if it does not exist
CreateTarget ==
    /\ pc = "mktarget"
    /\ dstDirs' = IF DirPath(TargetRoot, 0) \notin dstDirs
                  THEN CreateDirAll(dstDirs, DirPath(TargetRoot, 0))
                  ELSE dstDirs
    /\ pc' = "scan"
    /\ UNCHANGED <<srcIsDir, walk, threads, dstFs, total_files, folders,
                   files, mkIdx, chunks, tasks, senders, chan, pbpc,
                   received_count, summary, rxErrLogged, panicMsg, runs, dst0,
                   dstDirs0, outcome, units>>

\* lines 45-52: the three walks of the source tree
GatherStructure ==
    /\ pc = "scan"
    /\ total_files' = count_files_in_dir(walk)
    /\ IF get_directories_panics(walk)
       THEN /\ Panic("called Result::unwrap() on an Err value", 0)
            /\ UNCHANGED <<folders, files>>
       ELSE /\ folders' = get_directories(walk)
            /\ files' = get_files(walk)
            /\ pc' = "mkdirs"
            /\ UNCHANGED <<panicMsg, senders>>
    /\ UNCHANGED <<srcIsDir, walk, threads, dstDirs, dstFs, mkIdx, chunks,
                   tasks, chan, pbpc, received_count, summary, rxErrLogged,
                   runs, dst0, dstDirs0, outcome, units>>

\* a bug ReplicateFolder could have: the relative path is not joined
ReplicateFolderFlat(existing, folder) == CreateDirAll(existing, DirPath(TargetRoot, 0))

\* the directory created for one scanned folder (lines 56-58)
ReplicateFolder(existing, folder) == CreateDirAll(existing, Join(TargetRoot, StripPrefix(folder)))

\* lines 54-60: one iteration of the loop over folders, or its exit
CreateDirs ==
    /\ pc = "mkdirs"
    /\ IF mkIdx <= Len(folders)
       THEN /\ dstDirs' = ReplicateFolder(dstDirs, folders[mkIdx])
            /\ mkIdx' = mkIdx + 1
            /\ pc' = pc
       ELSE /\ pc' = "channel"
            /\ UNCHANGED <<dstDirs, mkIdx>>
    /\ UNCHANGED <<srcIsDir, walk, threads, dstFs, total_files, folders,
                   files, chunks, tasks, senders, chan, pbpc,
                   received_count, summary, rxErrLogged, panicMsg, runs, dst0,
                   dstDirs0, outcome, units>>

\* lines 62-97: create the channel and spawn the progress thread
SpawnPb ==
    /\ pc = "channel"
    /\ senders' = 1
    /\ chan' = <<>>
    /\ pbpc' = "loop"
    /\ received_count' = 0
    /\ pc' = "partition"
    /\ UNCHANGED <<srcIsDir, walk, threads, dstDirs, dstFs, total_files, folders,
                   files, mkIdx, chunks, tasks, summary, rxErrLogged, panicMsg,
                   runs, dst0, dstDirs0, outcome, units>>

NewTask(chunk) == [chunk |-> chunk, st |-> "queued", i |-> 1, existed |-> FALSE]

\* lines 99-106: chunk size, chunks, thread pool
Partition ==
    /\ pc = "partition"
    /\ IF threads = 0
       THEN /\ Panic("attempt to divide by zero", 1)
            /\ UNCHANGED chunks
       ELSE IF ChunkSize(total_files, threads) = 0
       THEN /\ Panic("chunk size must be non-zero", 1)
            /\ UNCHANGED chunks
       ELSE /\ chunks' = Chunks(files, ChunkSize(total_files, threads))
            /\ pc' = "scope"
            /\ UNCHANGED <<panicMsg, senders>>
    /\ UNCHANGED <<srcIsDir, walk, threads, dstDirs, dstFs, total_files, folders,
                   files, mkIdx, tasks, chan, pbpc, received_count, summary,
                   rxErrLogged, runs, dst0, dstDirs0, outcome, units>>

\* lines 109-118: the body of the scope spawns one task per chunk (each with a
\* clone of tx), then returns
ScopeSpawn ==
    /\ pc = "scope"
    /\ IF Len(tasks) < Len(chunks)
       THEN /\ tasks' = Append(tasks, NewTask(chunks[Len(tasks) + 1]))
            /\ senders' = senders + 1
            /\ pc' = pc
       ELSE /\ pc' = "scope_wait"
            /\ UNCHANGED <<tasks, senders>>
    /\ UNCHANGED <<srcIsDir, walk, threads, dstDirs, dstFs, total_files, folders,
                   files, mkIdx, chunks, chan, pbpc, received_count, summary,
                   rxErrLogged, panicMsg, runs, dst0, dstDirs0, outcome, units>>

\* ---- the copy tasks (copy_folder) ------------------------------------------
Running(t) == tasks[t].st \in {"check", "act"}
\* a bug Finished could have: the tasks are not waited for (a spawn outside
\* of the scope)
FinishedAny(t) == TRUE

Finished(t) == tasks[t].st \in {"done", "panicked"}

\* a bug BusyThreads could have: the running tasks are not counted (a thread
\* per task)
BusyThreadsNone == IF pc = "scope" THEN 1 ELSE 0

\* pool threads that are busy: the running tasks, and the thread that is still
\* executing the body of the scope (rayon runs it on a pool thread)
BusyThreads ==
    Cardinality({t \in 1..Len(tasks) : Running(t)}) + (IF pc = "scope" THEN 1 ELSE 0)

\* a free thread of the pool (num_threads(thread_count), line 106) picks a
\* queued task and calls copy_folder (line 116)
TaskStart(t) ==
    /\ t \in 1..Len(tasks)
    /\ tasks[t].st = "queued"
    /\ BusyThreads < threads
    /\ tasks' = [tasks EXCEPT ![t].st = "check"]
    /\ UNCHANGED <<srcIsDir, walk, threads, dstDirs, dstFs, pc, total_files,
                   folders, files, mkIdx, chunks, senders, chan, pbpc,
                   received_count, summary, rxErrLogged, panicMsg, runs, dst0,
                   dstDirs0, outcome, units>>

CurrentFile(t) == tasks[t].chunk[tasks[t].i]

\* the task after it is done with its current file: the next file of the
\* chunk, or the end of copy_folder
Advanced(task) ==
    IF task.i < Len(task.chunk)
    THEN [task EXCEPT !.i = task.i + 1, !.st = "check"]
    ELSE [task EXCEPT !.st = "done"]

\* a bug AfterFailure could have: the error leaves copy_folder
AfterFailureReturn(task) == [task EXCEPT !.st = "done"]

\* line 163: the Err arm only logs, the loop goes on with the next file
AfterFailure(task) == Advanced(task)

\* the Sender handles dropped when the task moves on: its own at the end
DroppedBy(task) == IF task.i < Len(task.chunk) THEN 0 ELSE 1

\* lines 137-157: the prefix check and the existence check of the destination
TaskCheck(t) ==
    /\ t \in 1..Len(tasks)
    /\ tasks[t].st = "check"
    /\ LET file == CurrentFile(t) IN
       IF ~StartsWith(file, SourceRoot)
       THEN /\ tasks' = [tasks EXCEPT ![t] = Advanced(tasks[t])]
            /\ senders' = senders - DroppedBy(tasks[t])
       ELSE /\ tasks' = [tasks EXCEPT ![t].existed = Exists(dstFs, Join(TargetRoot, StripPrefix(file))),
                                      ![t].st = "act"]
            /\ UNCHANGED senders
    /\ UNCHANGED <<srcIsDir, walk, threads, dstDirs, dstFs, pc, total_files,
                   folders, files, mkIdx, chunks, chan, pbpc,
                   received_count, summary, rxErrLogged, panicMsg, runs, dst0,
                   dstDirs0, outcome, units>>

\* the results fs::copy can have: it fails when the parent directory of the
\* destination is missing, and may fail for reasons of the platform otherwise
CopyResults(dirs, dst) == IF Parent(dst) \in dirs THEN {TRUE, FALSE} ELSE {FALSE}

\* a bug CopyFile could have: the destination is created but nothing is written
CopyFileEmpty(fs, file, dst) == (dst :> Stale) @@ fs

\* fs::copy on success: the destination holds the contents of the source
CopyFile(fs, file, dst) == (dst :> SrcContent(file)) @@ fs

\* tx.send(1).expect(..): delivered while the Receiver lives, a panic of the
\* task once it was dropped
ReceiverAlive == pbpc = "loop"

\* lines 159-168: copy or skip, and the Progress Unit
TaskAct(t) ==
    /\ t \in 1..Len(tasks)
    /\ tasks[t].st = "act"
    /\ LET file == CurrentFile(t)
           dst == Join(TargetRoot, StripPrefix(file))
           Send == IF ReceiverAlive
                   THEN /\ chan' = Append(chan, 1)
                        /\ units' = [units EXCEPT ![file] = @ + 1]
                        /\ tasks' = [tasks EXCEPT ![t] = Advanced(tasks[t])]
                        /\ senders' = senders - DroppedBy(tasks[t])
                   ELSE /\ tasks' = [tasks EXCEPT ![t].st = "panicked"]
                        /\ senders' = senders - 1
                        /\ UNCHANGED <<chan, units>>
       IN
       IF tasks[t].existed = FALSE
       THEN \E ok \in CopyResults(dstDirs, dst) :
               IF ok
               THEN /\ dstFs' = CopyFile(dstFs, file, dst)
                    /\ outcome' = [outcome EXCEPT ![file] = "copied"]
                    /\ Send
               ELSE /\ outcome' = [outcome EXCEPT ![file] = "failed"]
                    /\ tasks' = [tasks EXCEPT ![t] = AfterFailure(tasks[t])]
                    /\ senders' = senders - DroppedBy(tasks[t])
                    /\ UNCHANGED <<dstFs, chan, units>>
       ELSE /\ outcome' = [outcome EXCEPT ![file] = "skipped"]
            /\ Send
            /\ UNCHANGED dstFs
    /\ UNCHANGED <<srcIsDir, walk, threads, dstDirs, pc, total_files,
                   folders, files, mkIdx, chunks, pbpc, received_count,
                   summary, rxErrLogged, panicMsg, runs, dst0, dstDirs0>>

\* line 119: rayon::scope returns once every spawned task has finished; a
\* panic of a task is resumed in main
ScopeExit ==
    /\ pc = "scope_wait"
    /\ \A t \in 1..Len(tasks) : Finished(t)
    /\ IF \E t \in 1..Len(tasks) : tasks[t].st = "panicked"
       THEN Panic("Failed to send message through the channel", 1)
       ELSE /\ pc' = "join"
            /\ UNCHANGED <<panicMsg, senders>>
    /\ UNCHANGED <<srcIsDir, walk, threads, dstDirs, dstFs, total_files, folders,
                   files, mkIdx, chunks, tasks, chan, pbpc, received_count,
                   summary, rxErrLogged, runs, dst0, dstDirs0, outcome, units>>

\* a bug PbJoined could have: the handle is dropped instead of joined
PbJoinedDetached == TRUE

\* JoinHandle::join returns once the thread has returned
PbJoined == pbpc = "finished"

\* line 122: _pb_thread.join()
JoinPb ==
    /\ pc = "join"
    /\ PbJoined
    /\ pc' = "report"
    /\ UNCHANGED <<srcIsDir, walk, threads, dstDirs, dstFs, total_files, folders,
                   files, mkIdx, chunks, tasks, senders, chan, pbpc,
                   received_count, summary, rxErrLogged, panicMsg, runs, dst0,
                   dstDirs0, outcome, units>>

\* lines 124-131: the elapsed-time report; main returns and drops tx
ReportElapsed ==
    /\ pc = "report"
    /\ pc' = "done"
    /\ senders' = senders - 1
    /\ UNCHANGED <<srcIsDir, walk, threads, dstDirs, dstFs, total_files, folders,
                   files, mkIdx, chunks, tasks, chan, pbpc,
                   received_count, summary, rxErrLogged, panicMsg, runs, dst0,
                   dstDirs0, outcome, units>>

\* ---- the progress thread (_pb_thread) --------------------------------------
\* lines 77-85: recv() returns a message
PbRecvOk ==
    /\ pbpc = "loop"
    /\ received_count < total_files
    /\ chan # <<>>
    /\ chan' = Tail(chan)
    /\ received_count' = received_count + 1
    /\ UNCHANGED <<srcIsDir, walk, threads, dstDirs, dstFs, pc, total_files,
                   folders, files, mkIdx, chunks, tasks, senders, pbpc,
                   summary, rxErrLogged, panicMsg, runs, dst0, dstDirs0,
                   outcome, units>>

\* lines 86-90: recv() fails: the channel is empty and every Sender is gone
PbRecvErr ==
    /\ pbpc = "loop"
    /\ received_count < total_files
    /\ chan = <<>>
    /\ senders = 0
    /\ rxErrLogged' = TRUE
    /\ UNCHANGED <<srcIsDir, walk, threads, dstDirs, dstFs, pc, total_files,
                   folders, files, mkIdx, chunks, tasks, senders, chan, pbpc,
                   received_count, summary, panicMsg, runs, dst0, dstDirs0,
                   outcome, units>>

\* lines 94-97: the loop is left, the summary is emitted, the thread returns
\* (and drops the Receiver)
PbFinish ==
    /\ pbpc = "loop"
    /\ ~(received_count < total_files)
    /\ summary' = <<received_count, total_files>>
    /\ pbpc' = "finished"
    /\ UNCHANGED <<srcIsDir, walk, threads, dstDirs, dstFs, pc, total_files,
                   folders, files, mkIdx, chunks, tasks, senders, chan,
                   received_count, rxErrLogged, panicMsg, runs, dst0, dstDirs0,
                   outcome, units>>

\* ---- the process -------------------------------------------------------------
\* after the panic of main has unwound, the process exits and takes the
\* progress thread with it
ProcessExit ==
    /\ pc = "panicking"
    /\ pc' = "exited"
    /\ pbpc' = IF pbpc = "loop" THEN "killed" ELSE pbpc
    /\ UNCHANGED <<srcIsDir, walk, threads, dstDirs, dstFs, total_files, folders,
                   files, mkIdx, chunks, tasks, senders, chan,
                   received_count, summary, rxErrLogged, panicMsg, runs, dst0,
                   dstDirs0, outcome, units>>

\* the operator starts the tool again with the same arguments, on the
\* filesystem the previous run left (main, line 20)
Rerun ==
    /\ pc \in {"done", "exited", "returned"}
    /\ runs < MaxRuns
    /\ runs' = runs + 1
    /\ pc' = "start"
    /\ total_files' = 0
    /\ folders' = <<>>
    /\ files' = <<>>
    /\ mkIdx' = 1
    /\ chunks' = <<>>
    /\ tasks' = <<>>
    /\ senders' = 0
    /\ chan' = <<>>
    /\ pbpc' = "none"
    /\ received_count' = 0
    /\ summary' = <<>>
    /\ rxErrLogged' = FALSE
    /\ panicMsg' = ""
    /\ dst0' = dstFs
    /\ dstDirs0' = dstDirs
    /\ outcome' = NoHistory(walk)
    /\ units' = NoUnits(walk)
    /\ UNCHANGED <<srcIsDir, walk, threads, dstDirs, dstFs>>

Next ==
    \/ ValidateSource
    \/ CreateTarget
    \/ GatherStructure
    \/ CreateDirs
    \/ SpawnPb
    \/ Partition
    \/ ScopeSpawn
    \/ \E t \in 1..(2 * MaxFiles) : TaskStart(t)
    \/ \E t \in 1..(2 * MaxFiles) : TaskCheck(t)
    \/ \E t \in 1..(2 * MaxFiles) : TaskAct(t)
    \/ ScopeExit
    \/ JoinPb
    \/ ReportElapsed
    \/ PbRecvOk
    \/ PbRecvErr
    \/ PbFinish
    \/ ProcessExit
    \/ Rerun

Spec == Init /\ [][Next]_vars

\* the steps of main
Main ==
    \/ ValidateSource
    \/ CreateTarget
    \/ GatherStructure
    \/ CreateDirs
    \/ SpawnPb
    \/ Partition
    \/ ScopeSpawn
    \/ ScopeExit
    \/ JoinPb
    \/ ReportElapsed

\* the steps of the task of one chunk
Worker(t) == TaskStart(t) \/ TaskCheck(t) \/ TaskAct(t)

\* the steps of _pb_thread
PbThread == PbRecvOk \/ PbRecvErr \/ PbFinish

\* the operating system runs every thread that can take a step; the operator
\* is under no obligation to start the tool again
FairSpec ==
    /\ Init /\ [][Next]_vars
    /\ WF_vars(Main)
    /\ \A t \in 1..(2 * MaxFiles) : WF_vars(Worker(t))
    /\ WF_vars(PbThread)
    /\ WF_vars(ProcessExit)

TypeOK ==
    /\ pc \in {"start", "mktarget", "returned", "scan", "mkdirs", "channel",
               "partition", "scope", "scope_wait", "join", "report", "done",
               "panicking", "exited"}
    /\ pbpc \in {"none", "loop", "finished", "killed"}
    /\ received_count \in 0..MaxFiles
    /\ senders \in 0..(2 * MaxFiles + 1)
    /\ runs \in 1..MaxRuns

\* ---- vocabulary of the properties -------------------------------------------
\* the filesystem fs holds an entry at path p
Held(fs, p) == p \in DOMAIN fs

\* the partitioner (lines 99-103) has been executed in the current run
PartitionRan ==
    \/ pc \in {"scope", "scope_wait", "join", "report", "done"}
    \/ panicMsg \in {"attempt to divide by zero", "chunk size must be non-zero"}

\* the directory-creation loop (lines 54-60) has been left in the current run
Replicated ==
    \/ pc \in {"channel", "partition", "scope", "scope_wait", "join", "report", "done"}
    \/ (pc \in {"panicking", "exited"} /\ pbpc # "none")

\* the scan met no entry it could not read
CleanWalk == ~get_directories_panics(walk)

\* the source directories mapped through the root-prefix substitution
MirroredDirs == {Mirror(walk[i].path) : i \in {j \in 1..Len(walk) : IsOkDir(walk[j])}}

ChunksHolding(f) == {c \in 1..Len(chunks) : f \in Range(chunks[c])}

RECURSIVE SumUnits(_)
SumUnits(S) == IF S = {} THEN 0
               ELSE LET f == CHOOSE x \in S : TRUE IN units[f] + SumUnits(S \ {f})

Resolved == {f \in SrcFiles : outcome[f] \in {"copied", "skipped"}}
SomeCopyFailed == \E f \in SrcFiles : outcome[f] = "failed"

\* the run has reached the elapsed-time report after a complete summary
Completed ==
    /\ pc = "done"
    /\ received_count = total_files
    /\ summary = <<total_files, total_files>>

\* ---- C1 ------------------------------------------------------------------------
\* C1: for every file list and every worker count N >= 1, the partitioner
\* yields chunks whose concatenation, in order, is the scanned file list, so
\* that every scanned file is in exactly one chunk.
C1_ChunksCoverFileList ==
    (threads >= 1 /\ PartitionRan) =>
        /\ panicMsg # "chunk size must be non-zero"
        /\ Concat(chunks) = files
        /\ \A f \in SrcFiles : Cardinality(ChunksHolding(f)) = 1

\* ---- C2 ------------------------------------------------------------------------
\* C2: for every file list and every worker count N >= 1, the partitioner
\* produces at most N chunks.
C2_AtMostNChunks ==
    (threads >= 1 /\ PartitionRan) => Len(chunks) <= threads

\* ---- C3 ------------------------------------------------------------------------
\* C3: for every F >= 0 and N >= 1, a run in which no copy fails eventually has
\* received exactly F units, emitted the summary and reached the elapsed-time
\* report.  (A run either gets there or has a failed copy.)
C3_ProgressCompletion ==
    (pc = "start" /\ srcIsDir /\ CleanWalk /\ threads >= 1)
        ~> (Completed \/ SomeCopyFailed)

\* ---- C4 ------------------------------------------------------------------------
\* C4: a file that a worker has processed and whose mirrored destination
\* already held an entry has its destination contents unchanged, also when
\* they differ from the source, and exactly one Progress Unit was sent for it.
C4_SkipKeepsDestination ==
    \A f \in SrcFiles :
        (outcome[f] # "none" /\ Held(dst0, Mirror(f))) =>
            /\ Held(dstFs, Mirror(f))
            /\ dstFs[Mirror(f)] = dst0[Mirror(f)]
            /\ outcome[f] = "skipped"
            /\ units[f] = 1

C4_Witness ==
    \E f \in SrcFiles :
        /\ outcome[f] = "skipped"
        /\ Held(dst0, Mirror(f))
        /\ dst0[Mirror(f)] # SrcContent(f)
        /\ units[f] = 1

\* ---- C5 ------------------------------------------------------------------------
\* C5: when a run has reached the elapsed-time report with no failed copy,
\* every scanned file whose mirrored destination did not exist before the run
\* has a destination file at the mirrored path with the contents of the source.
C5_CopiedFilesMatchSource ==
    (pc = "done" /\ ~SomeCopyFailed) =>
        \A i \in 1..Len(files) :
            ~Held(dst0, Mirror(files[i])) =>
                /\ Held(dstFs, Mirror(files[i]))
                /\ dstFs[Mirror(files[i])] = SrcContent(files[i])

C5_Witness ==
    /\ pc = "done"
    /\ ~SomeCopyFailed
    /\ \E f \in SrcFiles, g \in SrcFiles :
          /\ f # g
          /\ ~Held(dst0, Mirror(f))
          /\ outcome[f] = "copied"
          /\ Held(dst0, Mirror(g))

\* ---- C6 ------------------------------------------------------------------------
\* C6: a run that starts on a destination holding every source file performs
\* no copy, leaves the destination unchanged, and once it is over the
\* aggregator has received exactly F Progress Units.
C6_RerunCopiesNothing ==
    (srcIsDir /\ CleanWalk /\ threads >= 1
        /\ \A f \in SrcFiles : Held(dst0, Mirror(f))) =>
        /\ dstFs = dst0
        /\ \A f \in SrcFiles : outcome[f] # "copied"
        /\ (pc \in {"done", "exited"} => received_count = Cardinality(SrcFiles))

\* ---- C7 ------------------------------------------------------------------------
\* C7: with worker count 0 the run aborts before the scan: the scan is never
\* performed, no directory is created under the target (the target itself
\* aside), no file is copied, and the run does not end in a division by zero.
C7_ZeroWorkersRejected ==
    threads = 0 =>
        /\ pc \in {"start", "mktarget", "scan", "returned", "panicking", "exited"}
        /\ dstDirs \ {DirPath(TargetRoot, 0)} = dstDirs0 \ {DirPath(TargetRoot, 0)}
        /\ dstFs = dst0
        /\ panicMsg # "attempt to divide by zero"

\* ---- C8 ------------------------------------------------------------------------
\* C8: from the moment a copy task has started, the mirrored path of every
\* source directory exists under the target, and the parent directory of the
\* destination of the file a task is working on exists.
C8_DirectoriesBeforeCopy ==
    \A t \in 1..Len(tasks) :
        tasks[t].st # "queued" =>
            /\ MirroredDirs \subseteq dstDirs
            /\ Running(t) => Parent(Mirror(CurrentFile(t))) \in dstDirs

C8_Witness ==
    \E t \in 1..Len(tasks) :
        /\ tasks[t].st = "check"
        /\ tasks[t].i = 1
        /\ Parent(Mirror(CurrentFile(t))) \notin dstDirs0
        /\ Parent(Mirror(CurrentFile(t))).dir > 0

\* ---- C9 ------------------------------------------------------------------------
\* C9: once the replication loop of a run is over, the directories under the
\* target are those that were there before the run together with the mirrored
\* source directories; on a target that already holds the mirrored tree the
\* loop completes and changes nothing.
C9_ReplicationIdempotent ==
    Replicated =>
        /\ dstDirs = dstDirs0 \cup MirroredDirs
        /\ MirroredDirs \subseteq dstDirs0 => dstDirs = dstDirs0

C9_Witness ==
    /\ runs = 2
    /\ Replicated
    /\ Cardinality(MirroredDirs) >= 2
    /\ MirroredDirs \subseteq dstDirs0
    /\ dstDirs = dstDirs0

\* ---- C10 -----------------------------------------------------------------------
\* C10: the Progress Units sent are as many as the files whose copy attempt
\* resolved as success or skip; a file yields at most one unit and a failed
\* copy none; the received count exceeds neither the units sent nor F.
C10_ProgressUnitAccounting ==
    /\ SumUnits(SrcFiles) = Cardinality(Resolved)
    /\ \A f \in SrcFiles : units[f] <= 1
    /\ \A f \in SrcFiles : outcome[f] = "failed" => units[f] = 0
    /\ received_count <= SumUnits(SrcFiles)
    /\ received_count <= Cardinality(SrcFiles)

C10_Witness ==
    /\ \E f \in SrcFiles : outcome[f] = "failed"
    /\ \E f \in SrcFiles : outcome[f] = "copied"
    /\ \E f \in SrcFiles : outcome[f] = "skipped"
    /\ received_count >= 1
    /\ received_count < SumUnits(SrcFiles)

\* ---- C11 -----------------------------------------------------------------------
\* the scope of the current run has returned to main
ScopeExited == pc \in {"join", "report", "done"}

\* C11: a failed copy unwinds neither its task nor the run: no task panics,
\* a task that is past a file (failed or not) has attempted every earlier
\* file of its chunk, a finished task has attempted its whole chunk, and when
\* the scope has returned every file of every chunk has been attempted.
C11_FailureIsLocal ==
    /\ \A t \in 1..Len(tasks) :
          /\ tasks[t].st # "panicked"
          /\ \A j \in 1..Len(tasks[t].chunk) :
                (tasks[t].st = "done" \/ (tasks[t].st \in {"check", "act"} /\ j < tasks[t].i))
                    => outcome[tasks[t].chunk[j]] # "none"
    /\ SomeCopyFailed => pc \notin {"panicking", "exited"}
    /\ ScopeExited => \A i \in 1..Len(files) : outcome[files[i]] # "none"

\* a copy failed and the later files of the same chunk were attempted after
\* all, by a task that finished normally
C11_Witness ==
    /\ ScopeExited
    /\ \E t \in 1..Len(tasks) :
          /\ Len(tasks[t].chunk) >= 2
          /\ outcome[tasks[t].chunk[1]] = "failed"
          /\ outcome[tasks[t].chunk[2]] = "copied"

\* ---- C12 -----------------------------------------------------------------------
\* C12: once a copy has failed in a run, the received count is below the total
\* file count, the summary has not been emitted, the progress thread has not
\* returned, and main has not got past the join to the elapsed-time report;
\* a run
\* in which a copy has failed remains one.
C12_FailureBlocksCompletion ==
    /\ [](SomeCopyFailed =>
            /\ received_count < total_files
            /\ summary = <<>>
            /\ pbpc = "loop"
            /\ pc \in {"scope", "scope_wait", "join"})
    /\ [][SomeCopyFailed => SomeCopyFailed']_vars

\* every task is over, main is blocked in the join, and the progress thread
\* waits for a unit that will never come
C12_Witness ==
    /\ SomeCopyFailed
    /\ pc = "join"
    /\ pbpc = "loop"
    /\ chan = <<>>
    /\ received_count >= 1
    /\ received_count = total_files - 1

\* ---- C13 -----------------------------------------------------------------------
\* C13: when the scan finds no file (and N >= 1), the partitioner produces no
\* chunk, no task is spawned, and the run does not end in a panic: it goes on
\* to the elapsed-time report with a received count of 0.
C13_EmptySourceTerminates ==
    (srcIsDir /\ CleanWalk /\ threads >= 1 /\ SrcFiles = {}) =>
        /\ tasks = <<>>
        /\ received_count = 0
        /\ panicMsg = ""
        /\ pc \notin {"panicking", "exited"}

\* ---- C14 -----------------------------------------------------------------------
\* C14: the chunk size the partitioner uses is F / N rounded to the nearest
\* integer, for every file count F and worker count N >= 1.
C14_ChunkSizeIsRoundedQuotient ==
    (threads >= 1 /\ pc \in {"scope", "scope_wait", "join", "report", "done"}) =>
        /\ ChunkSize(total_files, threads) = Round([num |-> total_files, den |-> threads])
        /\ Len(chunks[1]) = Round([num |-> total_files, den |-> threads])

\* ---- C16 -----------------------------------------------------------------------
\* C16: an entry that errors during the traversal is left out of the total,
\* of the file list and of the directory list, and does not abort the run: the
\* scan completes and main goes on to the replication of the directories.
C16_TraversalErrorsSkipped ==
    (srcIsDir /\ ~CleanWalk) =>
        /\ panicMsg # "called Result::unwrap() on an Err value"
        /\ pc \notin {"start", "mktarget", "scan"} =>
              /\ total_files = Cardinality(SrcFiles)
              /\ Range(files) = SrcFiles
              /\ Range(folders) = {walk[i].path : i \in {j \in 1..Len(walk) : IsOkDir(walk[j])}}

\* ---- C15 -----------------------------------------------------------------------
\* C15 as stated: main joins the progress thread first, and waits for the scope
\* of the pool to exit only once the progress thread has finished.
C15_JoinBeforeScopeExit ==
    pc = "scope_wait" => pbpc = "finished"

\* C15 as amended: main first waits in rayon::scope until every copy task has
\* finished, and only after the scope has returned does it block on the join
\* of the progress thread.
C15_ScopeExitBeforeJoin ==
    pc \in {"join", "report", "done"} =>
        /\ Len(tasks) = Len(chunks)
        /\ \A t \in 1..Len(tasks) : tasks[t].st = "done"

\* main is blocked in the join, every task is over, and the progress thread
\* still has units to receive
C15_Witness ==
    /\ pc = "join"
    /\ pbpc = "loop"
    /\ chan # <<>>
    /\ Len(tasks) >= 2
    /\ \A t \in 1..Len(tasks) : tasks[t].st = "done"

\* ---- C17 -----------------------------------------------------------------------
TasksHolding(f) == {t \in 1..Len(tasks) : f \in Range(tasks[t].chunk)}
DstOf(t) == {Mirror(f) : f \in Range(tasks[t].chunk)}

\* C17: no two tasks share a source file or a destination path; once every
\* chunk has its task each scanned file belongs to exactly one task; and
\* between the existence check of a destination and the copy or skip that
\* follows, nobody else has touched that path (it still is as it was seen).
C17_OneWorkerPerFile ==
    /\ \A t1 \in 1..Len(tasks), t2 \in 1..Len(tasks) :
          t1 # t2 =>
              /\ Range(tasks[t1].chunk) \cap Range(tasks[t2].chunk) = {}
              /\ DstOf(t1) \cap DstOf(t2) = {}
    /\ pc \in {"scope_wait", "join", "report", "done"} =>
          \A i \in 1..Len(files) : Cardinality(TasksHolding(files[i])) = 1
    /\ \A t \in 1..Len(tasks) :
          tasks[t].st = "act" => tasks[t].existed = Held(dstFs, Mirror(CurrentFile(t)))

\* two tasks are between their check and their copy at the same time
C17_Witness ==
    \E t1 \in 1..Len(tasks), t2 \in 1..Len(tasks) :
        /\ t1 # t2
        /\ tasks[t1].st = "act"
        /\ tasks[t2].st = "act"
        /\ ~tasks[t1].existed
        /\ ~tasks[t2].existed

\* ---- C18 -----------------------------------------------------------------------
\* C18: when main is at, or past, the elapsed-time report, every chunk has had
\* its task, every task has walked its whole chunk, and the progress thread has
\* emitted its summary and returned.
C18_ReportAfterWorkersAndAggregator ==
    pc \in {"report", "done"} =>
        /\ Len(tasks) = Len(chunks)
        /\ \A t \in 1..Len(tasks) :
              tasks[t].st = "done" /\ tasks[t].i = Len(tasks[t].chunk)
        /\ pbpc = "finished"
        /\ summary = <<received_count, total_files>>

C18_Witness ==
    /\ pc = "done"
    /\ Len(tasks) >= 2
    /\ summary = <<total_files, total_files>>
    /\ \E f \in SrcFiles : outcome[f] = "copied"

\* ---- C19 -----------------------------------------------------------------------
RunningTasks == {t \in 1..Len(tasks) : tasks[t].st \in {"check", "act"}}

\* C19: at no time do more than N copy tasks execute, N being the configured
\* worker count; and when there are more chunks than N, the surplus tasks are
\* all run in the end: the scope returns with every task finished.
C19_AtMostNTasksAtOnce ==
    /\ [](Cardinality(RunningTasks) <= threads)
    /\ (pc = "scope_wait" /\ Len(tasks) > threads)
          ~> (ScopeExited /\ \A t \in 1..Len(tasks) : tasks[t].st = "done")

\* more chunks than threads: the pool is full and a task waits for a thread
C19_Witness ==
    /\ Len(tasks) > threads
    /\ Cardinality(RunningTasks) = threads
    /\ threads >= 2
    /\ pc = "scope_wait"
    /\ \E t \in 1..Len(tasks) : tasks[t].st = "queued"

\* ---- C20 -----------------------------------------------------------------------
\* C20: the channel is never observed disconnected: no send fails (no task
\* panics on it), and recv() of the progress thread never returns the
\* disconnect error, main keeping its Sender until after the join.
C20_ChannelNeverDisconnected ==
    (srcIsDir /\ CleanWalk /\ threads >= 1) =>
        /\ \A t \in 1..Len(tasks) : tasks[t].st # "panicked"
        /\ panicMsg # "Failed to send message through the channel"
        /\ ~rxErrLogged
====
